---------------------------- MODULE Spec2Model ----------------------------
(***************************************************************************)
(* Model of prompt_ops/core/utils/progress.py (ProgressTracker and the     *)
(* track_progress context manager) and of create_and_display_summary in    *)
(* prompt_ops/core/utils/summary_utils.py.                                 *)
(*                                                                         *)
(* The output stream is a sequence of written items: a progress line (with *)
(* the bar as a sequence of glyphs) or a newline.  The wall clock          *)
(* (start_time, elapsed, the ETA minutes) and the float formatting of the  *)
(* percentage are not modelled: the clock is only subtracted and           *)
(* multiplied, never divided by; of the ETA only its presence is kept.     *)
(***************************************************************************)
EXTENDS Integers, Sequences, FiniteSets, TLC

(* ------------------------------ bounds -------------------------------- *)

\* update calls made inside one scope
MaxCalls == 4
\* explicit steps range over -MaxStep..MaxStep
MaxStep == 2
\* total_steps ranges over -MaxTotal..MaxTotal
MaxTotal == 3

TotalRange == (0 - MaxTotal)..MaxTotal
StepRange == (0 - MaxStep)..MaxStep
Descriptions == {"Progress"}
\* faults the enclosed block can raise
Faults == {"ValueError", "KeyboardInterrupt"}
\* len(strategy.trainset), len(strategy.valset) range over 0..MaxSet
MaxSet == 2

(* --------------------------- state ------------------------------------ *)

VARIABLES
    total_steps,    \* ProgressTracker.total_steps
    current_step,   \* ProgressTracker.current_step
    description,    \* ProgressTracker.description
    out,            \* what the tracker wrote to sys.stdout, in order
    calls,          \* arguments of the update calls the block made, in order
    finalCalls,     \* arguments of the update calls the finally clause made
    raised,         \* error the latest update call raised, "none" if it returned
    pc,             \* "block": inside the with-body; "done": scope exited
    fault,          \* fault the block raised, "none" if it has not raised
    propagated,     \* fault that left track_progress, "none" if none
    spc,            \* "call": create_and_display_summary not yet called; "exited"
    strategy,       \* the strategy object handed to create_and_display_summary
    logOutcome,     \* what summary.log() did: "ok" or the fault it raised
    result,         \* the summary create_and_display_summary returned
    escaped,        \* fault that left create_and_display_summary, "none" if none
    logCalls,       \* summaries on which log() was called, in order
    warnings        \* logging.warning calls made by create_and_display_summary

trackerVars == <<total_steps, current_step, description, out, calls,
                 finalCalls, raised, pc, fault, propagated>>
summaryVars == <<spc, strategy, logOutcome, result, escaped, logCalls, warnings>>
vars == <<total_steps, current_step, description, out, calls, finalCalls,
          raised, pc, fault, propagated, spc, strategy, logOutcome, result,
          escaped, logCalls, warnings>>

(* ----------------------- integer helpers ------------------------------ *)

Abs(n) == IF n < 0 THEN 0 - n ELSE n

Max(a, b) == IF a >= b THEN a ELSE b

\* floor(a / b), b # 0
FloorDiv(a, b) == IF b > 0 THEN a \div b ELSE (0 - a) \div (0 - b)

\* int(a / b): Python's int() of the true quotient truncates toward zero
TruncDiv(a, b) ==
    IF (a >= 0) = (b > 0) THEN Abs(a) \div Abs(b) ELSE 0 - (Abs(a) \div Abs(b))

\* glyph * n: a repetition count below 1 gives the empty string
Repeat(glyph, n) == [i \in 1..Max(0, n) |-> glyph]

(* --------------------------- ProgressTracker -------------------------- *)

bar_length == 30
FilledGlyph == "filled"
EmptyGlyph == "empty"

\* the optional step argument of update
NoStep == [given |-> FALSE, value |-> 0]
Step(k) == [given |-> TRUE, value |-> k]

NewLine == [kind |-> "nl"]

NextStepAssignOne(cur, step) == IF step.given THEN step.value ELSE 1

NextStepTruthy(cur, step) ==
    IF step.given /\ step.value # 0 THEN step.value ELSE cur + 1

\* update, lines 21-24: the new current_step
NextStep(cur, step) == IF step.given THEN step.value ELSE cur + 1

FilledFloorFirst(cur, tot) == bar_length * FloorDiv(cur, tot)

\* filled = int(bar_length * self.current_step / self.total_steps)
Filled(cur, tot) == TruncDiv(bar_length * cur, tot)

\* bar = filled glyphs, then bar_length - filled empty glyphs
Bar(cur, tot) ==
    Repeat(FilledGlyph, Filled(cur, tot))
        \o Repeat(EmptyGlyph, bar_length - Filled(cur, tot))

CompleteStrict(cur, tot) == cur > tot

CompleteExact(cur, tot) == cur = tot

\* if self.current_step >= self.total_steps: print()
Complete(cur, tot) == cur >= tot

\* the line of sys.stdout.write
Line(cur, tot, desc) ==
    [kind |-> "line", description |-> desc, bar |-> Bar(cur, tot),
     cur |-> cur, tot |-> tot, eta |-> cur > 0]

\* a / b raises ZeroDivisionError when b = 0
DivRaises(b) == b = 0

DisplayBody(cur, tot, desc) ==
    IF DivRaises(tot)                          \* percent, line 33
    THEN [written |-> <<>>, raised |-> "ZeroDivisionError"]
    ELSE IF cur > 0 /\ DivRaises(cur)          \* avg_time_per_step, line 37
    THEN [written |-> <<>>, raised |-> "ZeroDivisionError"]
    ELSE [written |-> <<Line(cur, tot, desc)>>
                        \o (IF Complete(cur, tot) THEN <<NewLine>> ELSE <<>>),
          raised |-> "none"]

DisplayNoGuard(cur, tot, desc) == DisplayBody(cur, tot, desc)

DisplayNewlineFirst(cur, tot, desc) ==
    IF tot = 0
    THEN [written |-> IF Complete(cur, tot) THEN <<NewLine>> ELSE <<>>,
          raised |-> "none"]
    ELSE DisplayBody(cur, tot, desc)

\* _display: what one call writes, and the error it raises
Display(cur, tot, desc) ==
    IF tot = 0
    THEN [written |-> <<>>, raised |-> "none"]
    ELSE DisplayBody(cur, tot, desc)

\* update(step) on a tracker at cur
UpdateResult(cur, tot, desc, step) ==
    [current_step |-> NextStep(cur, step),
     written |-> Display(NextStep(cur, step), tot, desc).written,
     raised |-> Display(NextStep(cur, step), tot, desc).raised]

(* ---------------------------- track_progress -------------------------- *)

NeedsFinalUpdateInclusive(cur, tot) == cur <= tot

\* finally: if tracker.current_step < tracker.total_steps
NeedsFinalUpdate(cur, tot) == cur < tot

ReraiseSwallow(blockFault, finallyError) == finallyError

\* try/finally: an error raised in the finally clause replaces the fault in
\* flight, otherwise the fault in flight is re-raised
Reraise(blockFault, finallyError) ==
    IF finallyError # "none" THEN finallyError ELSE blockFault

\* create_and_display_summary has not been called
SummaryIdle ==
    /\ spc = "call"
    /\ strategy = "none"
    /\ logOutcome = "none"
    /\ result = "none"
    /\ escaped = "none"
    /\ logCalls = <<>>
    /\ warnings = 0

\* tracker = ProgressTracker(total_steps, description); yield tracker
Init ==
    /\ total_steps \in TotalRange
    /\ current_step = 0
    /\ description \in Descriptions
    /\ out = <<>>
    /\ calls = <<>>
    /\ finalCalls = <<>>
    /\ raised = "none"
    /\ pc = "block"
    /\ fault = "none"
    /\ propagated = "none"
    /\ SummaryIdle

\* tracker.update(step) called by the block
DoUpdate(step) ==
    /\ calls' = Append(calls, step)
    /\ current_step' =
           UpdateResult(current_step, total_steps, description, step).current_step
    /\ out' = out \o
           UpdateResult(current_step, total_steps, description, step).written
    /\ raised' =
           UpdateResult(current_step, total_steps, description, step).raised
    /\ UNCHANGED <<total_steps, description, finalCalls, pc, fault, propagated>>
    /\ UNCHANGED summaryVars

\* tracker.update()
UpdateNoStep ==
    /\ pc = "block"
    /\ Len(calls) < MaxCalls
    /\ DoUpdate(NoStep)

\* tracker.update(k)
UpdateStep ==
    /\ pc = "block"
    /\ Len(calls) < MaxCalls
    /\ \E k \in StepRange : DoUpdate(Step(k))

\* the scope's exit: the finally clause, then the fault in flight leaves
ScopeExit(blockFault) ==
    /\ pc' = "done"
    /\ fault' = blockFault
    /\ IF NeedsFinalUpdate(current_step, total_steps)
       THEN /\ finalCalls' = <<Step(total_steps)>>
            /\ current_step' =
                   UpdateResult(current_step, total_steps, description,
                                Step(total_steps)).current_step
            /\ out' = out \o
                   UpdateResult(current_step, total_steps, description,
                                Step(total_steps)).written
            /\ raised' =
                   UpdateResult(current_step, total_steps, description,
                                Step(total_steps)).raised
            /\ propagated' =
                   Reraise(blockFault,
                           UpdateResult(current_step, total_steps, description,
                                        Step(total_steps)).raised)
       ELSE /\ finalCalls' = <<>>
            /\ UNCHANGED <<current_step, out, raised>>
            /\ propagated' = Reraise(blockFault, "none")
    /\ UNCHANGED <<total_steps, description, calls>>
    /\ UNCHANGED summaryVars

\* the block returns normally
ScopeReturn ==
    /\ pc = "block"
    /\ ScopeExit("none")

\* the block raises
ScopeRaise ==
    /\ pc = "block"
    /\ \E f \in Faults : ScopeExit(f)

Next == UpdateNoStep \/ UpdateStep \/ ScopeReturn \/ ScopeRaise

Spec == Init /\ [][Next]_vars

(* --------------------------- summary_utils.py ------------------------- *)

\* faults that are not instances of Exception
BaseExceptionOnly == {"KeyboardInterrupt", "SystemExit"}

\* except Exception: the clause catches instances of Exception only
Catches(e) == e # "none" /\ e \notin BaseExceptionOnly

\* what create_and_display_summary can be handed: the attributes the strategy
\* has and what its collaborators do.  Every other attribute read with
\* getattr is absent, so its default applies.
Strategies ==
    [tip : {"absent", "Be concise"},
     baseline : {"off", "scored", "raises", "interrupted"},
     get_model_name : {"absent", "ok", "raises"},
     task_model : BOOLEAN,
     prompt_model : BOOLEAN,
     metric : BOOLEAN,
     auto_dspy : {"light", "medium", "heavy", "raises"},
     num_trials : {<<>>, <<5>>},
     trainset : 0..MaxSet,
     valset : 0..MaxSet]

\* summary.log() returns, raises an Exception, or is interrupted
LogOutcomes == {"ok", "OSError", "KeyboardInterrupt"}

\* trial_estimates.get(dspy_mode, 7)
TrialEstimate(dspy_mode) ==
    IF dspy_mode = "medium" THEN 12 ELSE IF dspy_mode = "heavy" THEN 20 ELSE 7

\* the fault that ends create_pre_optimization_summary, "none" if it returns
CreateFault(s) ==
    IF s.baseline = "interrupted"
    THEN "KeyboardInterrupt"    \* line 50, not caught by except Exception
    ELSE IF s.get_model_name = "raises" /\ (s.task_model \/ s.prompt_model)
    THEN "RuntimeError"         \* lines 61, 63
    ELSE IF s.auto_dspy = "raises"
    THEN "ValueError"           \* lines 76, 82
    ELSE "none"

\* the PreOptimizationSummary built at lines 123-132
CreatedSummary(s) ==
    [task_model |->
         IF s.get_model_name = "ok" /\ s.task_model THEN "task-model"
         ELSE "Unknown",
     proposer_model |->
         IF s.get_model_name = "ok" /\ s.prompt_model THEN "prompt-model"
         ELSE "Unknown",
     metric_name |-> IF s.metric THEN "accuracy" ELSE "None",
     train_size |-> s.trainset,
     val_size |-> s.valset,
     mipro_params |->
         [auto_user |-> "basic",
          auto_dspy |-> s.auto_dspy,
          max_labeled_demos |-> 5,
          max_bootstrapped_demos |-> 4,
          num_candidates |-> 10,
          num_threads |-> 18,
          init_temperature |-> "0.5",
          seed |-> 9,
          num_trials |->
              IF s.num_trials = <<>> THEN TrialEstimate(s.auto_dspy)
              ELSE s.num_trials[1]],
     guidance |-> IF s.tip = "absent" THEN "None" ELSE s.tip,
     baseline_score |-> IF s.baseline = "scored" THEN "score" ELSE "None"]

create_pre_optimization_summary(s) ==
    IF CreateFault(s) # "none"
    THEN [raised |-> CreateFault(s), summary |-> <<>>]
    ELSE [raised |-> "none", summary |-> <<CreatedSummary(s)>>]

\* the fallback PreOptimizationSummary of lines 157-164
MinimalSummary ==
    [task_model |-> "Unknown", proposer_model |-> "Unknown",
     metric_name |-> "Unknown", train_size |-> 0, val_size |-> 0,
     mipro_params |-> <<>>]

\* a fault e raised inside the try block, after log() was called on logged
Handle(e, logged) ==
    IF Catches(e)
    THEN [result |-> <<MinimalSummary>>, escaped |-> "none",
          logCalls |-> logged, warnings |-> 1]
    ELSE [result |-> <<>>, escaped |-> e, logCalls |-> logged, warnings |-> 0]

CreateAndDisplayLogOutsideTry(s, logOut) ==
    IF create_pre_optimization_summary(s).raised # "none"
    THEN Handle(create_pre_optimization_summary(s).raised, <<>>)
    ELSE IF logOut # "ok"
    THEN [result |-> <<>>, escaped |-> logOut,
          logCalls |-> create_pre_optimization_summary(s).summary,
          warnings |-> 0]
    ELSE [result |-> create_pre_optimization_summary(s).summary,
          escaped |-> "none",
          logCalls |-> create_pre_optimization_summary(s).summary,
          warnings |-> 0]

\* create_and_display_summary(strategy, prompt_data), summary.log() doing logOut
create_and_display_summary(s, logOut) ==
    IF create_pre_optimization_summary(s).raised # "none"
    THEN Handle(create_pre_optimization_summary(s).raised, <<>>)
    ELSE IF logOut # "ok"
    THEN Handle(logOut, create_pre_optimization_summary(s).summary)
    ELSE [result |-> create_pre_optimization_summary(s).summary,
          escaped |-> "none",
          logCalls |-> create_pre_optimization_summary(s).summary,
          warnings |-> 0]

\* no tracker exists
TrackerAbsent ==
    /\ total_steps = 0
    /\ current_step = 0
    /\ description = "Progress"
    /\ out = <<>>
    /\ calls = <<>>
    /\ finalCalls = <<>>
    /\ raised = "none"
    /\ pc = "none"
    /\ fault = "none"
    /\ propagated = "none"

InitSummary == TrackerAbsent /\ SummaryIdle

\* one call of create_and_display_summary
CreateAndDisplaySummary ==
    /\ spc = "call"
    /\ spc' = "exited"
    /\ \E s \in Strategies, logOut \in LogOutcomes :
           /\ strategy' = s
           /\ logOutcome' =
                  IF create_pre_optimization_summary(s).raised = "none"
                  THEN logOut ELSE "none"
           /\ result' = create_and_display_summary(s, logOut).result
           /\ escaped' = create_and_display_summary(s, logOut).escaped
           /\ logCalls' = create_and_display_summary(s, logOut).logCalls
           /\ warnings' = create_and_display_summary(s, logOut).warnings
    /\ UNCHANGED trackerVars

NextSummary == CreateAndDisplaySummary

SpecSummary == InitSummary /\ [][NextSummary]_vars

(* ---------------------- claims: summary_utils.py ---------------------- *)

\* the fault that ended the try block of the call, "none" if none did
TryFault ==
    IF create_pre_optimization_summary(strategy).raised # "none"
    THEN create_pre_optimization_summary(strategy).raised
    ELSE IF logOutcome # "ok" THEN logOutcome ELSE "none"

IsMinimal(r) ==
    /\ r.task_model = "Unknown"
    /\ r.proposer_model = "Unknown"
    /\ r.metric_name = "Unknown"
    /\ r.train_size = 0
    /\ r.val_size = 0
    /\ DOMAIN r.mipro_params = {}

ReturnsCreatedLoggedOnce ==
    /\ escaped = "none"
    /\ result = create_pre_optimization_summary(strategy).summary
    /\ logCalls = result
    /\ Len(logCalls) = 1

ReturnsMinimal ==
    /\ escaped = "none"
    /\ Len(result) = 1
    /\ IsMinimal(result[1])

\* C10 as stated: create_and_display_summary never propagates an exception
\* raised while creating or logging the summary; in either failure case it
\* returns the minimal summary, and when neither step fails it returns the
\* created summary after log() has been called on it exactly once.
C10_AsStated ==
    spc = "exited" =>
        IF TryFault = "none" THEN ReturnsCreatedLoggedOnce ELSE ReturnsMinimal

\* C10 amended: the same for every failure that is an instance of Exception;
\* a fault that is not (KeyboardInterrupt, SystemExit) leaves
\* create_and_display_summary and no summary is returned.
C10_CatchesExceptionInstances ==
    spc = "exited" =>
        IF TryFault = "none" THEN ReturnsCreatedLoggedOnce
        ELSE IF TryFault \in BaseExceptionOnly
        THEN escaped = TryFault /\ result = <<>>
        ELSE ReturnsMinimal

C10_Witness ==
    /\ spc = "exited"
    /\ create_pre_optimization_summary(strategy).raised = "none"
    /\ logOutcome = "OSError"
    /\ strategy.valset = 2
    /\ Len(logCalls) = 1
    /\ logCalls[1].val_size = 2
    /\ ReturnsMinimal

(* ------------------------ claims: progress.py ------------------------- *)

AllWithoutStep == \A i \in 1..Len(calls) : ~calls[i].given

LastCall == calls[Len(calls)]

LineIdx == {i \in 1..Len(out) : out[i].kind = "line"}

\* C1: on every exit path of the scope (return or raise), if current_step <
\* total_steps at exit then update(total_steps) is performed exactly once
\* before control returns, and otherwise no further update is performed; no
\* finalization update happens while the block is still running.
C1_FinalUpdateExactlyOnce ==
    /\ [][(pc = "block" /\ pc' = "done") =>
            IF current_step < total_steps
            THEN /\ finalCalls' = <<Step(total_steps)>>
                 /\ current_step' = total_steps
            ELSE /\ finalCalls' = <<>>
                 /\ current_step' = current_step
                 /\ out' = out]_vars
    /\ [](pc = "block" => finalCalls = <<>>)

C1_Witness ==
    /\ pc = "done"
    /\ fault = "none"
    /\ Len(calls) = 2
    /\ AllWithoutStep
    /\ total_steps = 3
    /\ finalCalls = <<Step(3)>>
    /\ current_step = 3

\* C2: when the block raises a fault before current_step reaches
\* total_steps, the finalization update still occurs and the same fault
\* leaves track_progress: it is neither swallowed nor replaced.
C2_FaultPropagatesAfterFinalUpdate ==
    [][(pc = "block" /\ pc' = "done" /\ fault' # "none") =>
          /\ propagated' = fault'
          /\ (current_step < total_steps =>
                 /\ finalCalls' = <<Step(total_steps)>>
                 /\ current_step' = total_steps)]_vars

C2_Witness ==
    /\ pc = "done"
    /\ fault = "ValueError"
    /\ propagated = "ValueError"
    /\ Len(calls) = 1
    /\ total_steps = 2
    /\ finalCalls = <<Step(2)>>
    /\ Len(out) = 3

\* C3: after the scope has exited, if the tracker wrote anything to the
\* output stream, the last thing it wrote is a newline.
C3_NoUnterminatedLineAfterExit ==
    (pc = "done" /\ out # <<>>) => out[Len(out)].kind = "nl"

C3_Witness ==
    /\ pc = "done"
    /\ fault # "none"
    /\ total_steps > 0
    /\ Len(calls) = MaxCalls
    /\ finalCalls # <<>>
    /\ Len(out) = MaxCalls + 2
    /\ out[Len(out)].kind = "nl"

\* C4: for total_steps > 0, after n calls of update() without an explicit
\* step on a freshly constructed tracker, current_step equals n.
C4_IncrementCountsCalls ==
    (pc = "block" /\ total_steps > 0 /\ AllWithoutStep)
        => current_step = Len(calls)

C4_Witness ==
    /\ pc = "block"
    /\ total_steps = 3
    /\ AllWithoutStep
    /\ Len(calls) = 4
    /\ current_step = 4

\* C5: update(step=k) sets current_step to exactly k, for every integer k
\* (0, negative, above total_steps, below the prior current_step) and
\* whatever current_step was before.
C5_ExplicitStepSetsExactly ==
    (pc = "block" /\ calls # <<>> /\ LastCall.given)
        => current_step = LastCall.value

C5_Witness ==
    /\ pc = "block"
    /\ total_steps = 1
    /\ Len(calls) = 3
    /\ calls[1] = Step(2)
    /\ calls[2] = Step(0)
    /\ calls[3] = Step(0 - 1)
    /\ current_step = 0 - 1

\* C6: when total_steps = 0 nothing is written (no progress line and no
\* newline) by any update call, nor by the scope exit.
C6_ZeroTotalWritesNothing == total_steps = 0 => out = <<>>

C6_Witness ==
    /\ total_steps = 0
    /\ pc = "done"
    /\ Len(calls) = 3
    /\ calls[1] = NoStep
    /\ calls[3] = Step(0 - 2)
    /\ finalCalls = <<Step(0)>>
    /\ out = <<>>

\* C7: for total_steps # 0 every update call writes exactly one progress
\* line (showing current_step after the call), and the line is followed by a
\* newline if and only if current_step >= total_steps after the call.
C7_OneLinePerUpdateNewlineIffComplete ==
    total_steps # 0 =>
        /\ Cardinality(LineIdx) = Len(calls) + Len(finalCalls)
        /\ \A i \in 1..Len(out) :
               /\ out[i].kind = "line" =>
                      ((i < Len(out) /\ out[i + 1].kind = "nl")
                           <=> out[i].cur >= total_steps)
               /\ out[i].kind = "nl" => (i > 1 /\ out[i - 1].kind = "line")
        /\ (raised = "none" /\ LineIdx # {}) =>
               \E i \in LineIdx :
                   /\ \A j \in LineIdx : j <= i
                   /\ out[i].cur = current_step

C7_Witness ==
    /\ total_steps = 2
    /\ pc = "block"
    /\ Len(calls) = 4
    /\ AllWithoutStep
    /\ Len(out) = 7
    /\ out[1].kind = "line"
    /\ out[2].kind = "line"
    /\ out[3].kind = "nl"
    /\ out[5].kind = "nl"
    /\ out[7].kind = "nl"

IsBar(bar, nFilled, nEmpty) ==
    /\ nFilled >= 0
    /\ nEmpty >= 0
    /\ Len(bar) = nFilled + nEmpty
    /\ \A i \in 1..Len(bar) :
           bar[i] = IF i <= nFilled THEN FilledGlyph ELSE EmptyGlyph

\* current_step / total_steps lies in [0, 1]
InRange(cur, tot) == (cur = 0 \/ (cur > 0) = (tot > 0)) /\ Abs(cur) <= Abs(tot)

=============================================================================
